---------------------------- MODULE Spec2Model ----------------------------
(***************************************************************************)
(* A model of markdownUtils (packages/lib/markdownUtils.ts of Joplin).     *)
(*                                                                         *)
(* Every function of the module is pure.  A state of the model is one call *)
(* of one function: the arguments drawn for it (args), the function that   *)
(* has been applied to them (call, "none" before the call) and the value   *)
(* it returned (ret).  Strings are sequences of one-character strings, so  *)
(* that the regular expressions of the source are matched character by     *)
(* character, as the source's regexp engine matches them.                  *)
(***************************************************************************)
EXTENDS Integers, Sequences, FiniteSets, TLC

VARIABLES call, args, ret

vars == <<call, args, ret>>

\* The value of ret before any function has returned.
NoValue == [none |-> TRUE]

(***************************************************************************)
(* Strings                                                                 *)
(***************************************************************************)

\* The characters of the model's alphabets that JavaScript's \s class and
\* String.prototype.trim treat as white space.
WhiteSpace == {" ", "\t", "\n"}

Digits == {"0", "1", "2", "3", "4", "5", "6", "7", "8", "9"}

Min(a, b) == IF a < b THEN a ELSE b

\* s.substring(i - 1), 1-based: the characters of s from position i on.
From(s, i) == SubSeq(s, i, Len(s))

\* s.substring(0, n)
Take(s, n) == SubSeq(s, 1, Min(n, Len(s)))

\* Whether pattern p occurs in s at position i.
At(s, i, p) == /\ i >= 1
               /\ i + Len(p) - 1 <= Len(s)
               /\ SubSeq(s, i, i + Len(p) - 1) = p

\* Whether s contains p.
Contains(s, p) == \E i \in 1..Len(s) : At(s, i, p)

\* The concatenation of a sequence of strings.
RECURSIVE Flatten(_)
Flatten(ss) == IF ss = <<>> THEN <<>> ELSE Head(ss) \o Flatten(Tail(ss))

\* Every string made of at most n parts drawn from the set parts.
StringsOf(parts, n) ==
    { Flatten(ps) : ps \in UNION { [1..k -> parts] : k \in 0..n } }

\* s.replace(/p/g, r) for a literal, non-empty pattern p: the non-overlapping
\* occurrences of p, leftmost first, are replaced by r.
RECURSIVE ReplaceAll(_, _, _)
ReplaceAll(s, p, r) ==
    IF s = <<>> THEN <<>>
    ELSE IF At(s, 1, p) THEN r \o ReplaceAll(From(s, Len(p) + 1), p, r)
    ELSE <<Head(s)>> \o ReplaceAll(Tail(s), p, r)

\* The first position i of lo..hi where (s[i] \in cs) = member, 0 when there
\* is none.  The range is halved at every step, which keeps the evaluation
\* of a long string shallow.
RECURSIVE First(_, _, _, _, _)
First(s, cs, member, lo, hi) ==
    IF lo > hi THEN 0
    ELSE IF lo = hi THEN (IF (s[lo] \in cs) = member THEN lo ELSE 0)
    ELSE LET mid == (lo + hi) \div 2
             left == First(s, cs, member, lo, mid)
         IN  IF left > 0 THEN left ELSE First(s, cs, member, mid + 1, hi)

\* The last position i of lo..hi where (s[i] \in cs) = member, 0 when there
\* is none.
RECURSIVE Last(_, _, _, _, _)
Last(s, cs, member, lo, hi) ==
    IF lo > hi THEN 0
    ELSE IF lo = hi THEN (IF (s[lo] \in cs) = member THEN lo ELSE 0)
    ELSE LET mid == (lo + hi) \div 2
             right == Last(s, cs, member, mid + 1, hi)
         IN  IF right > 0 THEN right ELSE Last(s, cs, member, lo, mid)

\* The number of leading characters of s that are in the set cs.
LeadingRun(s, cs) ==
    LET i == First(s, cs, FALSE, 1, Len(s))
    IN  IF i = 0 THEN Len(s) ELSE i - 1

\* The number of trailing characters of s that are in the set cs.
TrailingRun(s, cs) == Len(s) - Last(s, cs, FALSE, 1, Len(s))

\* s.trim()
Trim(s) ==
    LET a == LeadingRun(s, WhiteSpace)
    IN  IF a = Len(s) THEN <<>>
        ELSE SubSeq(s, a + 1, Len(s) - TrailingRun(s, WhiteSpace))

(***************************************************************************)
(* JavaScript numbers: NaN, or a natural number.                           *)
(***************************************************************************)

NaN == [nan |-> TRUE, n |-> 0]

Num(k) == [nan |-> FALSE, n |-> k]

DigitValue(c) ==
    CASE c = "0" -> 0 [] c = "1" -> 1 [] c = "2" -> 2 [] c = "3" -> 3
      [] c = "4" -> 4 [] c = "5" -> 5 [] c = "6" -> 6 [] c = "7" -> 7
      [] c = "8" -> 8 [] c = "9" -> 9

\* The decimal value of a non-empty string of digits.
RECURSIVE Decimal(_)
Decimal(ds) ==
    IF Len(ds) = 1 THEN DigitValue(ds[1])
    ELSE 10 * Decimal(SubSeq(ds, 1, Len(ds) - 1)) + DigitValue(ds[Len(ds)])

\* A capture group: one that took part in the match, with the text it
\* matched, or one that did not (undefined in JavaScript).
Group(s) == [defined |-> TRUE, s |-> s]

Undefined == [defined |-> FALSE, s |-> <<>>]

\* Number(x) for a capture group x: NaN for undefined, the decimal value for
\* a string of digits.
Number(x) == IF x.defined THEN Num(Decimal(x.s)) ELSE NaN

(***************************************************************************)
(* The list-line recognizer                                                *)
(***************************************************************************)

Bullets == {"*", "+", "-"}

NoMatch == [matched |-> FALSE]

\* Whether the task-checkbox token [*+-] \[[x ]\] stands in s at position i.
CheckboxAt(s, i) ==
    /\ i + 4 <= Len(s)
    /\ s[i] \in Bullets
    /\ s[i + 1] = " "
    /\ s[i + 2] = "["
    /\ s[i + 3] \in {"x", " "}
    /\ s[i + 4] = "]"

\* line.match(listRegex) with
\* listRegex = /^(\s*)([*+-] \[[x ]\]\s|[*+-]\s|(\d+)([.)]\s))(\s*)/.
\* Group 1 takes all the leading white space (every alternative of group 2
\* starts with a character that is not white space); the alternatives of
\* group 2 are tried in order, and the last group always matches, so the first
\* alternative that matches is the one the match reports.  g[k] is capture
\* group k.
listRegex(line) ==
    LET w == LeadingRun(line, WhiteSpace)
        i == w + 1
        d == LeadingRun(From(line, i), Digits)
    IN  IF CheckboxAt(line, i) /\ i + 5 <= Len(line) /\ line[i + 5] \in WhiteSpace
        THEN [matched |-> TRUE,
              g |-> <<Group(SubSeq(line, 1, w)),
                      Group(SubSeq(line, i, i + 5)), Undefined,
                      Undefined>>]
        ELSE IF i + 1 <= Len(line) /\ line[i] \in Bullets
                /\ line[i + 1] \in WhiteSpace
        THEN [matched |-> TRUE,
              g |-> <<Group(SubSeq(line, 1, w)),
                      Group(SubSeq(line, i, i + 1)), Undefined,
                      Undefined>>]
        ELSE IF d > 0 /\ i + d + 1 <= Len(line) /\ line[i + d] \in {".", ")"}
                /\ line[i + d + 1] \in WhiteSpace
        THEN [matched |-> TRUE,
              g |-> <<Group(SubSeq(line, 1, w)),
                      Group(SubSeq(line, i, i + d + 1)),
                      Group(SubSeq(line, i, i + d - 1)),
                      Group(SubSeq(line, i + d, i + d + 1))>>]
        ELSE NoMatch

\* Whether s from position i on is one or more white space characters, up to
\* the end of the string: (\s+)$.
BlankToEnd(s, i) ==
    /\ i <= Len(s)
    /\ \A k \in i..Len(s) : s[k] \in WhiteSpace

\* emptyListRegex.test(line) with
\* emptyListRegex = /^(\s*)([*+-] \[[x ]\]|[*+-]|(\d+)[.)])(\s+)$/.
emptyListRegex(line) ==
    LET w == LeadingRun(line, WhiteSpace)
        i == w + 1
        d == LeadingRun(From(line, i), Digits)
    IN  \/ CheckboxAt(line, i) /\ BlankToEnd(line, i + 5)
        \/ i <= Len(line) /\ line[i] \in Bullets /\ BlankToEnd(line, i + 1)
        \/ d > 0 /\ i + d <= Len(line) /\ line[i + d] \in {".", ")"}
                 /\ BlankToEnd(line, i + d + 1)

olLineNumber(line) ==
    LET match == listRegex(line)
    IN  IF match.matched THEN Number(match.g[3]) ELSE Num(0)

\* extractListToken reading capture group 1 (the indentation) in place of
\* group 2 (the token).
extractListToken_Group1(line) ==
    LET match == listRegex(line)
    IN  IF match.matched THEN match.g[1].s ELSE <<>>

extractListToken(line) ==
    LET match == listRegex(line)
    IN  IF match.matched THEN match.g[2].s ELSE <<>>

isListItem(line) == listRegex(line).matched

isEmptyListItem(line) == emptyListRegex(line)

\* The parts the lines of the list specification are made of, and the most
\* parts a line has.
ListParts == { <<" ">>, <<"\t">>, <<"-">>, <<"*">>,
               <<"-", " ", "[", "x", "]">>, <<"*", " ", "[", " ", "]">>,
               <<"1">>, <<"2", "0">>, <<".">>, <<")">>, <<"a">> }

MaxListParts == 4

ListLines == StringsOf(ListParts, MaxListParts)

InitList ==
    /\ call = "none"
    /\ args \in { [line |-> l] : l \in ListLines }
    /\ ret = NoValue

OlLineNumber ==
    /\ call = "none"
    /\ call' = "olLineNumber"
    /\ ret' = olLineNumber(args.line)
    /\ UNCHANGED args

ExtractListToken ==
    /\ call = "none"
    /\ call' = "extractListToken"
    /\ ret' = extractListToken(args.line)
    /\ UNCHANGED args

IsListItem ==
    /\ call = "none"
    /\ call' = "isListItem"
    /\ ret' = isListItem(args.line)
    /\ UNCHANGED args

IsEmptyListItem ==
    /\ call = "none"
    /\ call' = "isEmptyListItem"
    /\ ret' = isEmptyListItem(args.line)
    /\ UNCHANGED args

NextList ==
    \/ OlLineNumber
    \/ ExtractListToken
    \/ IsListItem
    \/ IsEmptyListItem

SpecList == InitList /\ [][NextList]_vars


\* C1: for every line, olLineNumber(line) is the parsed decimal ordinal when
\* the line is an ordered-list item (digits, then "." or ")", then white
\* space), and the number 0 in every other case, the unordered and the
\* task-checkbox list items included.
C1_OrdinalOrZero ==
    call = "olLineNumber" =>
        LET w == LeadingRun(args.line, WhiteSpace)
            rest == From(args.line, w + 1)
            d == LeadingRun(rest, Digits)
            ordered == /\ d > 0
                       /\ d + 2 <= Len(rest)
                       /\ rest[d + 1] \in {".", ")"}
                       /\ rest[d + 2] \in WhiteSpace
        IN  ret = IF ordered THEN Num(Decimal(SubSeq(rest, 1, d))) ELSE Num(0)

\* C9: the two list recognizers are consistent: isEmptyListItem(line) implies
\* isListItem(line), and isListItem(line) holds exactly when
\* extractListToken(line) is a non-empty string.
C9_RecognizersConsistent ==
    /\ (call = "isEmptyListItem" /\ ret) => isListItem(args.line)
    /\ call = "isListItem" => (ret <=> extractListToken(args.line) # <<>>)
    /\ call = "extractListToken" => (ret # <<>> <=> isListItem(args.line))

\* An empty task-checkbox item has been recognized as an empty list item.
C9_Witness ==
    /\ call = "isEmptyListItem"
    /\ ret
    /\ CheckboxAt(args.line, 1)


(***************************************************************************)
(* Escaping and unescaping link URLs                                       *)
(***************************************************************************)

\* escapeLinkUrl without its last replacement, of the space.
escapeLinkUrl_NoSpace(url) ==
    ReplaceAll(ReplaceAll(url, <<"(">>, <<"%", "2", "8">>),
               <<")">>, <<"%", "2", "9">>)

escapeLinkUrl(url) ==
    LET u1 == ReplaceAll(url, <<"(">>, <<"%", "2", "8">>)
        u2 == ReplaceAll(u1, <<")">>, <<"%", "2", "9">>)
    IN  ReplaceAll(u2, <<" ">>, <<"%", "2", "0">>)

unescapeLinkUrl(url) ==
    LET u1 == ReplaceAll(url, <<"%", "2", "8">>, <<"(">>)
        u2 == ReplaceAll(u1, <<"%", "2", "9">>, <<")">>)
    IN  ReplaceAll(u2, <<"%", "2", "0">>, <<" ">>)

\* The characters of the URLs of the link specification, and the most
\* characters a URL has.
UrlChars == { <<"%">>, <<"2">>, <<"8">>, <<"9">>, <<"0">>, <<"(">>, <<")">>,
              <<" ">> }

MaxUrlLen == 4

Urls == StringsOf(UrlChars, MaxUrlLen)

InitLink ==
    /\ call = "none"
    /\ args \in { [url |-> u] : u \in Urls }
    /\ ret = NoValue

EscapeLinkUrl ==
    /\ call = "none"
    /\ call' = "escapeLinkUrl"
    /\ ret' = escapeLinkUrl(args.url)
    /\ UNCHANGED args

\* unescapeLinkUrl applied to the URL itself.
UnescapeLinkUrl ==
    /\ call = "none"
    /\ call' = "unescapeLinkUrl"
    /\ ret' = unescapeLinkUrl(args.url)
    /\ UNCHANGED args

\* unescapeLinkUrl applied to what escapeLinkUrl returned: the round trip.
UnescapeEscaped ==
    /\ call = "escapeLinkUrl"
    /\ call' = "unescapeLinkUrl(escapeLinkUrl)"
    /\ ret' = unescapeLinkUrl(ret)
    /\ UNCHANGED args

NextLink ==
    \/ EscapeLinkUrl
    \/ UnescapeLinkUrl
    \/ UnescapeEscaped

SpecLink == InitLink /\ [][NextLink]_vars

\* Whether the URL holds one of the three escape sequences literally.
HasEscapeSequence(url) ==
    \/ Contains(url, <<"%", "2", "8">>)
    \/ Contains(url, <<"%", "2", "9">>)
    \/ Contains(url, <<"%", "2", "0">>)

\* C5: for every url that does not already contain the literal sequences
\* %28, %29 or %20, unescapeLinkUrl(escapeLinkUrl(url)) equals url, and
\* escapeLinkUrl(url) contains no "(", ")" or space.
C5_LinkUrlRoundTrip ==
    ~HasEscapeSequence(args.url) =>
        /\ call = "escapeLinkUrl" =>
               \A i \in 1..Len(ret) : ret[i] \notin {"(", ")", " "}
        /\ call = "unescapeLinkUrl(escapeLinkUrl)" => ret = args.url

\* A URL with a parenthesis, a space and a bare "%2" has made the round trip.
C5_Witness ==
    /\ call = "unescapeLinkUrl(escapeLinkUrl)"
    /\ ~HasEscapeSequence(args.url)
    /\ Contains(args.url, <<"%", "2", "(">>)
    /\ Contains(args.url, <<" ">>)
    /\ ret = args.url


(***************************************************************************)
(* The table engine                                                        *)
(***************************************************************************)

escapeTableCell(text) ==
    LET t1 == ReplaceAll(text, <<"<">>, <<"&", "l", "t", ";">>)
        t2 == ReplaceAll(t1, <<">">>, <<"&", "g", "t", ";">>)
        t3 == ReplaceAll(t2, <<"\n">>, <<"<", "b", "r", "/", ">">>)
    IN  ReplaceAll(t3, <<"|">>, <<"\\", "|">>)

\* stringPadding(s, width, ' ', stringPadding.RIGHT) of the string-padding
\* package: s followed by spaces up to the width, s itself when it is as long.
RECURSIVE stringPadding(_, _)
stringPadding(s, width) ==
    IF Len(s) >= width THEN s ELSE stringPadding(s \o <<" ">>, width)

minCellWidth == 5

\* The values of the enum MarkdownTableJustify; NoJustify is a header without
\* the optional field.
JustifyLeft == "left"
JustifyCenter == "center"
JustifyRight == "right,"
NoJustify == ""

\* parts.join(sep)
RECURSIVE Join(_, _)
Join(parts, sep) ==
    IF parts = <<>> THEN <<>>
    ELSE IF Len(parts) = 1 THEN parts[1]
    ELSE parts[1] \o sep \o Join(Tail(parts), sep)

\* '| ' + cells.join(' | ') + ' |'
TableLine(cells) == <<"|", " ">> \o Join(cells, <<" ", "|", " ">>) \o <<" ", "|">>

\* The header cells: every label, padded.
headersMd(headers) ==
    [i \in 1..Len(headers) |-> stringPadding(headers[i].label, minCellWidth)]

\* The divider cell of one header.
DividerCell(h) ==
    LET justify == IF h.justify # NoJustify THEN h.justify ELSE JustifyLeft
    IN  IF justify = JustifyLeft THEN <<"-", "-", "-", "-", "-">>
        ELSE IF justify = JustifyCenter THEN <<":", "-", "-", "-", ":">>
        ELSE <<"-", "-", "-", "-", ":">>

\* The divider cells with the loop over the headers starting one too late.
lineMd_SkipFirst(headers) ==
    [i \in 1..(Len(headers) - 1) |-> DividerCell(headers[i + 1])]

\* The divider cells: one for every header.
lineMd(headers) == [i \in 1..Len(headers) |-> DividerCell(headers[i])]

\* The filters a header may carry: none, or one of two functions of the
\* caller's: one that appends a "|" to the value, one that returns nothing.
NoFilter == "none"
FilterAppendBar == "appendBar"
FilterBlank == "blank"

\* h.filter(v) for a value v that may be undefined.
ApplyFilter(f, v) ==
    IF f = FilterAppendBar THEN Group((IF v.defined THEN v.s ELSE <<>>) \o <<"|">>)
    ELSE Undefined

\* (h.filter ? h.filter(row[h.name]) : row[h.name]) || ''
CellValue(h, row) ==
    LET raw == IF h.name \in DOMAIN row THEN row[h.name] ELSE Undefined
        v == IF h.filter # NoFilter THEN ApplyFilter(h.filter, raw) ELSE raw
    IN  IF v.defined THEN v.s ELSE <<>>

\* h.disableEscape ? value : markdownUtils.escapeTableCell(value)
CellValueMd(h, row) ==
    IF h.disableEscape THEN CellValue(h, row)
    ELSE escapeTableCell(CellValue(h, row))

\* The cells of one data row.
rowMd(headers, row) ==
    [j \in 1..Len(headers) |->
        stringPadding(CellValueMd(headers[j], row), minCellWidth)]

createMarkdownTable(headers, rows) ==
    LET output == <<TableLine(headersMd(headers)), TableLine(lineMd(headers))>>
                  \o [i \in 1..Len(rows) |-> TableLine(rowMd(headers, rows[i]))]
    IN  Join(output, <<"\n">>)

\* The number of "|" in s: (s.match(/\|/g) || []).length
RECURSIVE CountPipes(_)
CountPipes(s) ==
    IF s = <<>> THEN 0
    ELSE (IF Head(s) = "|" THEN 1 ELSE 0) + CountPipes(Tail(s))

\* countTableColumns without the discount of a trailing pipe.
countTableColumns_NoTrailing(line) ==
    IF ~line.defined \/ line.s = <<>> THEN 0
    ELSE LET trimmed == Trim(line.s)
             pipes == CountPipes(line.s)
             p1 == IF trimmed # <<>> /\ trimmed[1] = "|" THEN pipes - 1 ELSE pipes
         IN  p1 + 1

\* A line is a string or null: Group(s) or Undefined.
countTableColumns(line) ==
    IF ~line.defined \/ line.s = <<>> THEN 0
    ELSE LET trimmed == Trim(line.s)
             pipes == CountPipes(line.s)
             p1 == IF trimmed # <<>> /\ trimmed[1] = "|" THEN pipes - 1 ELSE pipes
             p2 == IF trimmed # <<>> /\ trimmed[Len(trimmed)] = "|"
                   THEN p1 - 1 ELSE p1
         IN  p2 + 1

matchingTableDivider(header, divider) ==
    IF ~header.defined \/ header.s = <<>> \/ ~divider.defined \/ divider.s = <<>>
    THEN FALSE
    ELSE IF \E i \in 1..Len(divider.s) :
                divider.s[i] \notin WhiteSpace \cup {"-", ":", "|"}
    THEN FALSE
    ELSE LET columns == countTableColumns(header)
             cols == countTableColumns(divider)
         IN  cols > 0 /\ cols >= columns


\* The headers the tables of the table specification are made of: every
\* justification, with and without a filter, with and without escaping, labels
\* shorter and longer than the minimum width, and one label holding a "|".
HeaderPool ==
    { [name |-> "a", label |-> <<"A">>, filter |-> NoFilter,
       disableEscape |-> FALSE, justify |-> NoJustify],
      [name |-> "b", label |-> <<"T", "i", "t", "l", "e", "!">>, filter |-> NoFilter,
       disableEscape |-> TRUE, justify |-> JustifyCenter],
      [name |-> "a", label |-> <<"a", "|", "b">>, filter |-> FilterAppendBar,
       disableEscape |-> FALSE, justify |-> JustifyRight],
      [name |-> "b", label |-> <<"B">>, filter |-> FilterBlank,
       disableEscape |-> FALSE, justify |-> JustifyLeft],
      [name |-> "b", label |-> <<"b", " ", "b">>, filter |-> NoFilter,
       disableEscape |-> FALSE, justify |-> JustifyRight],
      [name |-> "c", label |-> <<>>, filter |-> FilterAppendBar,
       disableEscape |-> TRUE, justify |-> NoJustify] }

\* The values of a row's cells; Undefined is a key the row does not have.
CellPool ==
    { Undefined, Group(<<"x", "\n", "<">>), Group(<<"a", "|", "b">>),
      Group(<<"\\", "|">>) }

RowPool == [{"a", "b"} -> CellPool]

MaxHeaders == 2

MaxRows == 1

\* The characters of the texts given to escapeTableCell, and the most
\* characters a text has.
TextChars == { <<"|">>, <<"\\">>, <<"\n">>, <<"<">>, <<">">>, <<"a">> }

MaxTextLen == 3

SeqsOf(S, n) == UNION { [1..k -> S] : k \in 0..n }

TableArgs ==
    { [headers |-> hs, rows |-> rs, text |-> <<>>] :
        hs \in SeqsOf(HeaderPool, MaxHeaders), rs \in SeqsOf(RowPool, MaxRows) }

TextArgs ==
    { [headers |-> <<>>, rows |-> <<>>, text |-> x] :
        x \in StringsOf(TextChars, MaxTextLen) }

InitTable ==
    /\ call = "none"
    /\ \/ args \in TextArgs
       \/ args \in TableArgs
    /\ ret = NoValue

EscapeTableCell ==
    /\ call = "none"
    /\ call' = "escapeTableCell"
    /\ ret' = escapeTableCell(args.text)
    /\ UNCHANGED args

CreateMarkdownTable ==
    /\ call = "none"
    /\ call' = "createMarkdownTable"
    /\ ret' = createMarkdownTable(args.headers, args.rows)
    /\ UNCHANGED args

NextTable ==
    \/ EscapeTableCell
    \/ CreateMarkdownTable

SpecTable == InitTable /\ [][NextTable]_vars

\* Whether a cell holds no new line and no "|" other than one escaped by a
\* backslash that is not itself escaped: a "|" is escaped when the run of
\* backslashes right before it has an odd length.
CellIsSafe(cell) ==
    \A i \in 1..Len(cell) :
        /\ cell[i] # "\n"
        /\ cell[i] = "|" =>
               TrailingRun(SubSeq(cell, 1, i - 1), {"\\"}) % 2 = 1

\* C2: table cell values never contain a literal new line or an unescaped
\* pipe after processing: every text escapeTableCell returns, and every cell
\* createMarkdownTable emits (header labels and data cells, whatever the
\* filter and disableEscape), holds no "\n" and no unescaped "|".
C2_CellsAreSafe ==
    /\ call = "escapeTableCell" => CellIsSafe(ret)
    /\ call = "createMarkdownTable" =>
           \A j \in 1..Len(args.headers) :
               /\ CellIsSafe(headersMd(args.headers)[j])
               /\ \A i \in 1..Len(args.rows) :
                      CellIsSafe(rowMd(args.headers, args.rows[i])[j])

\* The number of characters of s before its first new line.
LineLength(s) ==
    LET i == First(s, {"\n"}, TRUE, 1, Len(s))
    IN  IF i = 0 THEN Len(s) ELSE i - 1

\* The lines of a text: the text cut at its new lines.
RECURSIVE SplitLines(_)
SplitLines(s) ==
    LET k == LineLength(s)
    IN  IF k = Len(s) THEN <<s>>
        ELSE <<SubSeq(s, 1, k)>> \o SplitLines(From(s, k + 2))

HeaderLineChars == { <<"|">>, <<" ">>, <<"a">> }

DividerLineChars == { <<"|">>, <<" ">>, <<"-">>, <<":">>, <<"a">> }

MaxHeaderLineLen == 3

MaxDividerLineLen == 3

OptionalLines(chars, n) == {Undefined} \cup { Group(s) : s \in StringsOf(chars, n) }

InitDivider ==
    /\ call = "none"
    /\ args \in { [header |-> h, divider |-> d] :
                    h \in OptionalLines(HeaderLineChars, MaxHeaderLineLen),
                    d \in OptionalLines(DividerLineChars, MaxDividerLineLen) }
    /\ ret = NoValue

CountTableColumns ==
    /\ call = "none"
    /\ call' = "countTableColumns"
    /\ ret' = countTableColumns(args.divider)
    /\ UNCHANGED args

MatchingTableDivider ==
    /\ call = "none"
    /\ call' = "matchingTableDivider"
    /\ ret' = matchingTableDivider(args.header, args.divider)
    /\ UNCHANGED args

NextDivider ==
    \/ CountTableColumns
    \/ MatchingTableDivider

SpecDivider == InitDivider /\ [][NextDivider]_vars

\* The column count as the claim states it: 0 for an empty or null line,
\* otherwise the number of "|" in the line, minus one if the first character
\* that is not white space is a "|", minus one if the last one is, plus one.
ColumnsAsStated(line) ==
    IF ~line.defined \/ line.s = <<>> THEN 0
    ELSE LET s == line.s
             inked == { i \in 1..Len(s) : s[i] \notin WhiteSpace }
             first == CHOOSE i \in inked : \A k \in inked : i <= k
             last == CHOOSE i \in inked : \A k \in inked : i >= k
         IN  Cardinality({ i \in 1..Len(s) : s[i] = "|" })
             - (IF inked # {} /\ s[first] = "|" THEN 1 ELSE 0)
             - (IF inked # {} /\ s[last] = "|" THEN 1 ELSE 0)
             + 1

\* C6: matchingTableDivider(headerLine, dividerLine) is true exactly when both
\* lines are non-empty (non-null), dividerLine holds only white space, "-",
\* ":" and "|", countTableColumns(dividerLine) > 0 and
\* countTableColumns(dividerLine) >= countTableColumns(headerLine), where
\* countTableColumns is the count stated above; a divider that declares fewer
\* columns than the header is never accepted.
C6_DividerMatchesExactly ==
    /\ call = "countTableColumns" => ret = ColumnsAsStated(args.divider)
    /\ call = "matchingTableDivider" =>
           (ret <=>
               /\ args.header.defined /\ args.header.s # <<>>
               /\ args.divider.defined /\ args.divider.s # <<>>
               /\ \A i \in 1..Len(args.divider.s) :
                      args.divider.s[i] \in {" ", "\t", "\n", "-", ":", "|"}
               /\ ColumnsAsStated(args.divider) > 0
               /\ ColumnsAsStated(args.divider) >= ColumnsAsStated(args.header))
    /\ (call = "matchingTableDivider"
        /\ ColumnsAsStated(args.divider) < ColumnsAsStated(args.header)) => ~ret

\* A divider of more columns than its header has been accepted.
C6_Witness ==
    /\ call = "matchingTableDivider"
    /\ ret
    /\ ColumnsAsStated(args.divider) = 2
    /\ ColumnsAsStated(args.header) = 1


(***************************************************************************)
(* The URL extractor                                                       *)
(*                                                                         *)
(* The tokenizer (markdown-it) is not part of the module: a call is given  *)
(* the token tree the tokenizer returned for the markdown.  A token is     *)
(* [type, attrs, content, children]; attrs is a sequence of <<name, value>>*)
(* pairs.  The content of a raw HTML token is the sequence of its tags,    *)
(* each [tag, url], in the order they stand in the text.                   *)
(***************************************************************************)

\* The values of the enum ExtractFileUrlsResultType.
Anchor == 1
Image == 2

\* The matches of imageRegex in the content of a raw HTML token: its <img>
\* tags, in order, the URL of each being capture group 2.
imageRegex(content) ==
    SelectSeq(content, LAMBDA tag : tag.tag = "img")

\* The matches of anchorRegex in the content of a raw HTML token: its <a>
\* tags, in order, the URL of each being capture group 2.
anchorRegex(content) ==
    SelectSeq(content, LAMBDA tag : tag.tag = "a")

\* The options of a call with the defaults for those it does not give.
MergeOptions(options) ==
    LET defaults == [includeAnchors |-> TRUE, includeImages |-> TRUE,
                     detailedResults |-> FALSE, html |-> FALSE]
    IN  [k \in DOMAIN defaults |->
            IF k \in DOMAIN options THEN options[k] ELSE defaults[k]]

\* What an image or a link_open token adds to the output: one result for
\* every src or href attribute with a value.
AttrResults(token) ==
    LET urls == SelectSeq(token.attrs,
                    LAMBDA a : a[1] \in {"src", "href"} /\ Len(a) >= 2 /\ a[2] # "")
    IN  [j \in 1..Len(urls) |->
            [url |-> urls[j][2],
             type |-> IF token.type = "image" THEN Image ELSE Anchor]]

\* What a raw HTML token adds to the output: the matches of imageRegex, then
\* the matches of anchorRegex.
HtmlResults(token, options) ==
    LET imgs == IF options.includeImages THEN imageRegex(token.content) ELSE <<>>
        as == IF options.includeAnchors THEN anchorRegex(token.content) ELSE <<>>
    IN  [j \in 1..Len(imgs) |-> [url |-> imgs[j].url, type |-> Image]]
        \o [j \in 1..Len(as) |-> [url |-> as[j].url, type |-> Anchor]]

\* Whether the loop of searchUrls leaves the token by a continue, before it
\* reaches the token's children.
Skipped(token, options) ==
    \/ token.type = "image" /\ ~options.includeImages
    \/ token.type = "link_open" /\ ~options.includeAnchors

\* The output of searchUrls(tokens): what every token adds, then what its
\* children add, in the order of the tokens.
RECURSIVE searchUrls(_, _)
searchUrls(tokens, options) ==
    IF tokens = <<>> THEN <<>>
    ELSE LET token == Head(tokens)
             skipped == Skipped(token, options)
             own == IF token.type \in {"image", "link_open"}
                    THEN IF skipped THEN <<>> ELSE AttrResults(token)
                    ELSE IF token.type \in {"html_block", "html_inline"}
                    THEN HtmlResults(token, options)
                    ELSE <<>>
             below == IF skipped THEN <<>>
                      ELSE searchUrls(token.children, options)
         IN  own \o below \o searchUrls(Tail(tokens), options)

\* extractFileUrls on the token tree of the markdown.
extractFileUrls(tokens, options) ==
    LET opts == MergeOptions(options)
        output == searchUrls(tokens, opts)
    IN  IF opts.detailedResults THEN output
        ELSE [j \in 1..Len(output) |-> output[j].url]

extractImageUrls(tokens) ==
    extractFileUrls(tokens, [includeImages |-> TRUE, includeAnchors |-> FALSE])

Token(type, attrs, content, children) ==
    [type |-> type, attrs |-> attrs, content |-> content, children |-> children]

\* The tags of the raw HTML of the URL specification, and the most tags one
\* HTML token holds.
TagPool == { [tag |-> "img", url |-> "u1"], [tag |-> "a", url |-> "u2"] }

MaxTags == 2

HtmlContents == SeqsOf(TagPool, MaxTags)

\* The tokens without children: a text, a link with a URL, a link with an
\* empty href and a title, and inline HTML.
LeafTokens ==
    { Token("text", <<>>, <<>>, <<>>),
      Token("link_open", << <<"href", "u2">> >>, <<>>, <<>>),
      Token("link_open", << <<"href", "">>, <<"title", "t">> >>, <<>>, <<>>) }
    \cup { Token("html_inline", <<>>, c, <<>>) : c \in HtmlContents }

\* An image; its children are the tokens of its description, which may hold
\* a link.
ImageTokens ==
    { Token("image", << <<"src", "u1">>, <<"alt", "">> >>, <<>>, kids) :
        kids \in { <<>>,
                   << Token("text", <<>>, <<>>, <<>>) >>,
                   << Token("link_open", << <<"href", "u2">> >>, <<>>, <<>>) >> } }

MaxChildren == 2

MaxTokens == 1

\* The block tokens: an inline block with its children, or an HTML block.
BlockTokens ==
    { Token("inline", <<>>, <<>>, kids) :
        kids \in SeqsOf(LeafTokens \cup ImageTokens, MaxChildren) }
    \cup { Token("html_block", <<>>, c, <<>>) : c \in HtmlContents }

OptionNames == {"includeImages", "includeAnchors", "detailedResults"}

OptionSets == UNION { [names -> BOOLEAN] : names \in SUBSET OptionNames }

InitUrl ==
    /\ call = "none"
    /\ args \in { [tokens |-> ts, options |-> o] :
                    ts \in SeqsOf(BlockTokens, MaxTokens), o \in OptionSets }
    /\ ret = NoValue

ExtractFileUrls ==
    /\ call = "none"
    /\ call' = "extractFileUrls"
    /\ ret' = extractFileUrls(args.tokens, args.options)
    /\ UNCHANGED args

ExtractImageUrls ==
    /\ call = "none"
    /\ call' = "extractImageUrls"
    /\ ret' = extractImageUrls(args.tokens)
    /\ UNCHANGED args

NextUrl ==
    \/ ExtractFileUrls
    \/ ExtractImageUrls

SpecUrl == InitUrl /\ [][NextUrl]_vars


\* The URLs of a list of results, and the results of one type.
UrlsOf(results) == [j \in 1..Len(results) |-> results[j].url]

OfType(results, type) == SelectSeq(results, LAMBDA r : r.type = type)

\* The URLs of a token tree in document order: the URLs of a token in the
\* order they stand in it, then those of its children, token after token.
RECURSIVE DocumentOrder(_)
DocumentOrder(tokens) ==
    IF tokens = <<>> THEN <<>>
    ELSE LET token == Head(tokens)
             own == IF token.type \in {"image", "link_open"}
                    THEN UrlsOf(AttrResults(token))
                    ELSE IF token.type \in {"html_block", "html_inline"}
                    THEN [j \in 1..Len(token.content) |-> token.content[j].url]
                    ELSE <<>>
         IN  own \o DocumentOrder(token.children) \o DocumentOrder(Tail(tokens))

\* C3: extractFileUrls returns its results in document order with duplicates
\* preserved: for any token tree, raw HTML tokens with several <img> and <a>
\* tags included, the output lists every recorded URL in the order in which
\* it occurs in the source, a token before its children, a URL that occurs k
\* times being listed k times.  It is stated for the calls that include both
\* kinds, which record every URL of the tree.
C3_DocumentOrder ==
    (/\ call = "extractFileUrls"
     /\ MergeOptions(args.options).includeImages
     /\ MergeOptions(args.options).includeAnchors)
    => (IF MergeOptions(args.options).detailedResults THEN UrlsOf(ret) ELSE ret)
       = DocumentOrder(args.tokens)

\* C4: extractFileUrls honours its inclusion options on both extraction
\* paths: with includeImages false no result is an Image, with includeAnchors
\* false no result is an Anchor, the results of the other kind are exactly
\* those produced when both options are true, and with detailedResults false
\* the list returned is the list of the url fields of the detailed results.
C4_InclusionOptions ==
    call = "extractFileUrls" =>
        LET opts == MergeOptions(args.options)
            asked == [k \in DOMAIN opts \ {"detailedResults"} |-> opts[k]]
            detailed == IF opts.detailedResults THEN ret
                        ELSE extractFileUrls(args.tokens,
                                 asked @@ [detailedResults |-> TRUE])
            both == extractFileUrls(args.tokens,
                        [includeImages |-> TRUE, includeAnchors |-> TRUE,
                         detailedResults |-> TRUE])
        IN  /\ ~opts.includeImages => OfType(detailed, Image) = <<>>
            /\ ~opts.includeAnchors => OfType(detailed, Anchor) = <<>>
            /\ opts.includeImages => OfType(detailed, Image) = OfType(both, Image)
            /\ opts.includeAnchors => OfType(detailed, Anchor) = OfType(both, Anchor)
            /\ ~opts.detailedResults => ret = UrlsOf(detailed)


(***************************************************************************)
(* The title extractor                                                     *)
(***************************************************************************)

\* The position of the first character c of s at or after position i, 0 when
\* there is none.
IndexFrom(s, c, i) == First(s, {c}, TRUE, i, Len(s))

\* A match of mdLinkRegex = /!?\[([^\]]+?)\]\(.+?\)/ or, with an empty
\* label, of emptyMdLinkRegex = /!?\[\]\((.+?)\)/ that starts at position p
\* of s.  The label runs to the first "]" (it holds none) and, labelled, is
\* not empty; "(" follows; the lazy .+? takes one character, then runs to the
\* first ")" after it.  No character of a title is a line terminator.
LinkAt(s, p, labelled) ==
    LET b == IF p <= Len(s) /\ s[p] = "!" THEN p + 1 ELSE p
        close == IF b <= Len(s) /\ s[b] = "[" THEN IndexFrom(s, "]", b + 1) ELSE 0
        labelOk == IF labelled THEN close > b + 1 ELSE close = b + 1
        open == close + 1
        last == IF close > 0 /\ labelOk /\ open <= Len(s) /\ s[open] = "("
                THEN IndexFrom(s, ")", open + 2) ELSE 0
    IN  IF last > 0
        THEN [matched |-> TRUE, last |-> last,
              label |-> SubSeq(s, b + 1, close - 1),
              url |-> SubSeq(s, open + 1, last - 1)]
        ELSE [matched |-> FALSE, last |-> 0, label |-> <<>>, url |-> <<>>]

\* The first position of lo..hi where a match starts, 0 when there is none.
RECURSIVE FirstLink(_, _, _, _)
FirstLink(s, lo, hi, labelled) ==
    IF lo > hi THEN 0
    ELSE IF lo = hi THEN (IF LinkAt(s, lo, labelled).matched THEN lo ELSE 0)
    ELSE LET mid == (lo + hi) \div 2
             left == FirstLink(s, lo, mid, labelled)
         IN  IF left > 0 THEN left ELSE FirstLink(s, mid + 1, hi, labelled)

\* s.replace(mdLinkRegex, '$1') from position p on: every match, leftmost
\* first, is replaced by its label, and the search goes on after the match.
RECURSIVE ReplaceLinks(_, _)
ReplaceLinks(s, p) ==
    LET start == FirstLink(s, p, Len(s), TRUE)
        m == LinkAt(s, start, TRUE)
    IN  IF start = 0 THEN From(s, p)
        ELSE SubSeq(s, p, start - 1) \o m.label \o ReplaceLinks(s, m.last + 1)

\* s.replace(emptyMdLinkRegex, '$1') from position p on: every match is
\* replaced by its URL.
RECURSIVE ReplaceEmptyLinks(_, _)
ReplaceEmptyLinks(s, p) ==
    LET start == FirstLink(s, p, Len(s), FALSE)
        m == LinkAt(s, start, FALSE)
    IN  IF start = 0 THEN From(s, p)
        ELSE SubSeq(s, p, start - 1) \o m.url \o ReplaceEmptyLinks(s, m.last + 1)

\* The characters filterRegex removes from the start of the title: #, space,
\* new line, tab, *, backtick and -.
\* The backtick character stands as a word: the module's syntax has no string
\* for it.
Backtick == "backtick"

FilterChars == {"#", " ", "\n", "\t", "*", Backtick, "-"}

\* title.replace(filterRegex, "")
StripMarkers(title) == From(title, LeadingRun(title, FilterChars) + 1)

\* body.trim().split('\n')[0].trim()
FirstLine(body) ==
    LET trimmed == Trim(body)
    IN  Trim(SubSeq(trimmed, 1, LineLength(trimmed)))

TitleMaxLength == 80

\* titleFromBody cutting the line to 80 characters before it removes the
\* markup.
titleFromBody_TruncateFirst(body) ==
    IF ~body.defined \/ body.s = <<>> THEN <<>>
    ELSE LET title == Take(FirstLine(body.s), TitleMaxLength)
         IN  ReplaceEmptyLinks(ReplaceLinks(StripMarkers(title), 1), 1)

\* A body is a string or null: Group(s) or Undefined.
titleFromBody(body) ==
    IF ~body.defined \/ body.s = <<>> THEN <<>>
    ELSE LET title == FirstLine(body.s)
             stripped == StripMarkers(title)
             links == ReplaceLinks(stripped, 1)
             emptyLinks == ReplaceEmptyLinks(links, 1)
         IN  Take(emptyLinks, TitleMaxLength)

\* A run of n characters "x".
Filler(n) == [i \in 1..n |-> "x"]

\* The length of the long part of a body: with a link after it, the line is
\* longer than 80 characters and its title is not.
FillerLength == 77

\* The parts the bodies of the title specification are made of, and the most
\* parts a body has.
BodyParts ==
    { <<"#", " ">>, <<"[", "a", "]">>, <<"[", "]">>, <<"(", "u", ")">>,
      <<"[", "a", "]", "(", "u", ")">>, <<"(">>, <<")">>, <<"!">>, <<"\n">>,
      <<" ">>, <<"-">>, <<Backtick>>, Filler(FillerLength) }

MaxBodyParts == 3

InitTitle ==
    /\ call = "none"
    /\ args \in { [body |-> b] :
                    b \in OptionalLines(BodyParts, MaxBodyParts) }
    /\ ret = NoValue

TitleFromBody ==
    /\ call = "none"
    /\ call' = "titleFromBody"
    /\ ret' = titleFromBody(args.body)
    /\ UNCHANGED args

NextTitle ==
    \/ TitleFromBody

SpecTitle == InitTitle /\ [][NextTitle]_vars

\* C7: titleFromBody(body) is the empty string when body is empty or null,
\* and otherwise a string of at most 80 characters with no new line, equal
\* to: the first line of the trimmed body, trimmed, without its leading run of
\* characters from {#, space, new line, tab, *, backtick, -}, then with every
\* [label](url) and ![label](url) of a non-empty label replaced by the label,
\* then with every [](url) and ![](url) replaced by the url, and only then cut
\* to 80 characters.
C7_TitleFromBody ==
    call = "titleFromBody" =>
        /\ (~args.body.defined \/ args.body.s = <<>>) => ret = <<>>
        /\ Len(ret) <= 80
        /\ \A i \in 1..Len(ret) : ret[i] # "\n"
        /\ (args.body.defined /\ args.body.s # <<>>) =>
               LET line == FirstLine(args.body.s)
                   bare == StripMarkers(line)
                   collapsed == ReplaceEmptyLinks(ReplaceLinks(bare, 1), 1)
               IN  /\ Len(collapsed) <= 80 => ret = collapsed
                   /\ Len(collapsed) > 80 => ret = SubSeq(collapsed, 1, 80)

\* The title of a line longer than 80 characters whose link, once replaced by
\* its label, leaves a title that fits and is not cut.
C7_Witness ==
    /\ call = "titleFromBody"
    /\ args.body.defined
    /\ Len(FirstLine(args.body.s)) > 80
    /\ Len(ret) = FillerLength + 1
    /\ ret[Len(ret)] = "a"

(***************************************************************************)
(* The resource URL rewriter                                               *)
(***************************************************************************)

\* Whether a ")" follows position p on the line of position p: the lookahead
\* (?=.*\)) at the character after p.
RECURSIVE ParenAhead(_, _)
ParenAhead(s, p) ==
    IF p > Len(s) \/ s[p] = "\n" THEN FALSE
    ELSE IF s[p] = ")" THEN TRUE
    ELSE ParenAhead(s, p + 1)

\* The position of the last character of a match of
\* (?<=\]\()\<?urlToReplace\>?(?=.*\)) that starts at position p of md, 0 when
\* there is none.  urlToReplace holds no character special to a regular
\* expression, so it matches itself.  The optional "<" and ">" are taken when
\* they are there: without the "<" the URL would have to start with it, and
\* the lookahead that fails after the ">" fails before it.
ResourceMatchEnd(md, p, urlToReplace) ==
    LET u == IF p <= Len(md) /\ md[p] = "<" THEN p + 1 ELSE p
        e == u + Len(urlToReplace) - 1
        last == IF e + 1 <= Len(md) /\ md[e + 1] = ">" THEN e + 1 ELSE e
    IN  IF /\ p >= 3
           /\ md[p - 2] = "]"
           /\ md[p - 1] = "("
           /\ At(md, u, urlToReplace)
           /\ ParenAhead(md, last + 1)
        THEN last ELSE 0

\* md.replace(reg, ':/' + id) from position p on.
RECURSIVE ReplaceResource(_, _, _, _)
ReplaceResource(md, p, urlToReplace, id) ==
    IF p > Len(md) THEN <<>>
    ELSE LET last == ResourceMatchEnd(md, p, urlToReplace)
         IN  IF last > 0
             THEN <<":", "/">> \o id \o ReplaceResource(md, last + 1, urlToReplace, id)
             ELSE <<md[p]>> \o ReplaceResource(md, p + 1, urlToReplace, id)

replaceResourceUrl(md, urlToReplace, id) == ReplaceResource(md, 1, urlToReplace, id)

\* The parts the markdown of the rewriter specification is made of, the most
\* parts a text has, the URLs to replace and the ids.
MarkdownParts ==
    { <<"[", "x", "]", "(">>, <<")">>, <<"a", "b">>, <<"c">>, <<"<">>, <<">">>,
      <<" ">> }

MaxMarkdownParts == 4

TargetUrls == { <<"a", "b">>, <<"c">> }

ResourceIds == { <<"i", "d">>, <<"7">> }

InitResource ==
    /\ call = "none"
    /\ args \in { [md |-> m, urlToReplace |-> u, id |-> i] :
                    m \in StringsOf(MarkdownParts, MaxMarkdownParts),
                    u \in TargetUrls, i \in ResourceIds }
    /\ ret = NoValue

ReplaceResourceUrl ==
    /\ call = "none"
    /\ call' = "replaceResourceUrl"
    /\ ret' = replaceResourceUrl(args.md, args.urlToReplace, args.id)
    /\ UNCHANGED args

NextResource ==
    \/ ReplaceResourceUrl

SpecResource == InitResource /\ [][NextResource]_vars

\* The text the claim describes, from position p on: a link target, the text
\* after a "](" up to the white space or the ")" that ends it, is replaced
\* by ":/" and the id when it is the URL to replace and a ")" closes the
\* link; every other character is kept.
RECURSIVE TargetsReplaced(_, _, _, _)
TargetsReplaced(md, p, url, id) ==
    IF p > Len(md) THEN <<>>
    ELSE LET e == p + Len(url) - 1
             isTarget == /\ p >= 3
                         /\ md[p - 2] = "]"
                         /\ md[p - 1] = "("
                         /\ At(md, p, url)
                         /\ e + 1 <= Len(md)
                         /\ md[e + 1] \in {")", " "}
                         /\ IndexFrom(md, ")", e + 1) > 0
         IN  IF isTarget
             THEN <<":", "/">> \o id \o TargetsReplaced(md, e + 1, url, id)
             ELSE <<md[p]>> \o TargetsReplaced(md, p + 1, url, id)

\* C8: for every markdown text, every id and every regex-safe targetUrl
\* without ")", replaceResourceUrl replaces each occurrence of targetUrl that
\* is the target of a markdown link, between "](" and ")", with ":/" and the
\* id, replaces all of them, and leaves every other character unchanged: the
\* occurrences outside the link-target position and the link targets that are
\* a different URL are not modified.  It is stated for the texts without
\* angle brackets, where the target of a link is the text after "](".
C8_OnlyTargetsReplaced ==
    (/\ call = "replaceResourceUrl"
     /\ ~Contains(args.md, <<"<">>)
     /\ ~Contains(args.md, <<">">>))
    => ret = TargetsReplaced(args.md, 1, args.urlToReplace, args.id)

=============================================================================
